---- MODULE Spec2Model ----
(***************************************************************************)
(* ViniPlay DVR recording engine (server.js): scheduleDvrJob,              *)
(* startRecording and its 'close' / 'error' handlers,                      *)
(* loadAndScheduleAllDvrJobs and the /api/dvr HTTP handlers.               *)
(*                                                                         *)
(* db.run / db.all are asynchronous: a statement is queued (dbq) and its   *)
(* effect and completion callback happen in a later step (Exec...), in     *)
(* submission order.  fs.stat and fs.unlink are asynchronous as well.      *)
(* Timers, activeDvrJobs, runningFFmpegProcesses, the statement queue and  *)
(* the child processes belong to one process lifetime; the dvr_jobs and    *)
(* dvr_recordings tables and the files under /dvr survive a restart.       *)
(***************************************************************************)
EXTENDS Integers, Sequences, FiniteSets, TLC

\* ---- bounds ----
MaxJobs == 1        \* rows ever inserted into dvr_jobs
MaxTime == 2        \* the clock runs over 0..MaxTime
MaxBoots == 2       \* process lifetimes
MaxFileSize == 2    \* largest output file size
MaxQueue == 1       \* statements of HTTP requests waiting in sqlite at once
MaxRecordingId == 1 \* largest dvr_recordings.id a request names

JobIds == 1..MaxJobs
Owners == {1}               \* users who schedule recordings
Users == {1, 2}             \* users who send DELETE requests
ProgramTimes == 1..(MaxTime - 1)
Buffers == {0, 1}           \* settings.dvr.preBufferMinutes / postBufferMinutes
Profiles == {1, 2}          \* ids of settings.dvr.recordingProfiles
RecordingIds == 1..MaxRecordingId

\* ---- units: the clock and the job windows count minutes ----
MsPerMinute == 60000    \* (preBufferMinutes || 0) * 60 * 1000
MsPerSecond == 1000     \* (endTime - startTime) / 1000

\* new Date(t).getTime()
ToMs(t) == t * MsPerMinute

\* new Date(ms).toISOString(), read back by new Date(job.startTime)
FromMs(ms) == ms \div MsPerMinute

\* ---- encodings ----
NULL == 0           \* SQL NULL / JS undefined pid
Absent == -1        \* key not in a Map
Missing == -1       \* file does not exist (fs.stat gives statErr)
CodeSignal == -1    \* 'close' code null: child ended by a signal
CodeSpawn == -2     \* 'close' code after a failed spawn (negative errno)
ExitCodes == {0, 1}
\* what startRecording meets: a missing channel / profile / user-agent, a
\* settings.json that does not parse, a spawn that fails, a spawn that works
SpawnOutcomes == {"config", "unreadable", "spawnfail", "ok"}

VARIABLES
    now,                    \* new Date()
    boots,                  \* number of process lifetimes so far
    bootPhase,              \* progress of loadAndScheduleAllDvrJobs
    jobs,                   \* table dvr_jobs, row id = index
    recordings,             \* table dvr_recordings
    lastRecordingId,        \* AUTOINCREMENT counter of dvr_recordings
    files,                  \* /dvr/<id>_<title>.mp4 per job id: size or Missing
    dbq,                    \* statements submitted to sqlite, not yet executed
    pendingStart,           \* per job: pending node-schedule start jobs
    pendingStop,            \* per job: pending node-schedule stop jobs
    activeDvrJobs,          \* Map job id -> start job handle
    runningFFmpegProcesses, \* Map job id -> pid
    procs,                  \* child processes whose handlers have not finished
    pendingUnlink,          \* fs.unlink calls in flight
    activeRecordingProfileId, \* settings.dvr.activeRecordingProfileId
    \* history of the current lifetime / of the run, used by the properties
    startEvents,            \* startRecording invocations per job, this lifetime
    stopFirings,            \* stop-trigger firings per job, this lifetime
    cleanSeen,              \* jobs whose exit handler saw code 0 and a non-empty file
    recordingAtBoot,        \* rows that were 'recording' when this lifetime began
    pastWindow,             \* jobs rejected by scheduleDvrJob as already past
    cancelledEarly,         \* jobs cancelled by their owner before any start
    cancelledRecording,     \* jobs cancelled by their owner while 'recording'
    threw,                  \* jobs whose startRecording threw an exception
    errored,                \* jobs whose status has been 'error'
    requested,              \* per job: programStart, programStop of its request
    recResponse,            \* response to DELETE /api/dvr/recordings/:id sent by the step
    call                    \* a call of a pure function of startRecording: input and result

vars == <<now, boots, bootPhase, jobs, recordings, files, dbq, pendingStart,
          pendingStop, activeDvrJobs, runningFFmpegProcesses, procs,
          pendingUnlink, startEvents, stopFirings, cleanSeen,
          recordingAtBoot, pastWindow, cancelledEarly,
          activeRecordingProfileId, cancelledRecording, threw, errored,
          lastRecordingId, requested, recResponse, call>>

\* ---- statements ----
Stmt(op, id, a, b, c) ==
    [op |-> op, id |-> id, a |-> a, b |-> b, c |-> c, d |-> NULL,
     e |-> [programStart |-> NULL, programStop |-> NULL,
            preBufferMinutes |-> NULL, postBufferMinutes |-> NULL]]

\* ---- the in-memory engine state handled by the synchronous code ----
Mem == [pendingStart |-> pendingStart, pendingStop |-> pendingStop,
        active |-> activeDvrJobs, reg |-> runningFFmpegProcesses,
        procs |-> procs, dbq |-> dbq, startEvents |-> startEvents,
        pastWindow |-> pastWindow, threw |-> threw, crashed |-> FALSE]

SetMem(S) ==
    /\ pendingStart' = S.pendingStart
    /\ pendingStop' = S.pendingStop
    /\ activeDvrJobs' = S.active
    /\ runningFFmpegProcesses' = S.reg
    /\ procs' = S.procs
    /\ dbq' = S.dbq
    /\ startEvents' = S.startEvents
    /\ pastWindow' = S.pastWindow
    /\ threw' = S.threw

\* db.run(sql, params): the statement is submitted, not yet executed
DbRun(S, stmt) == [S EXCEPT !.dbq = Append(@, stmt)]

\* startRecording(job); c is what the collaborators and spawn() give
\* startRecording that registers the job before it looks at the configuration
startRecording_RegistersFirst(S, j, c) ==
    LET S1 == [S EXCEPT !.startEvents[j] = @ + 1] IN
    IF c = "config"
    THEN DbRun([S1 EXCEPT !.reg[j] = NULL],
               Stmt("setErrorPid", j, NULL, NULL, NULL))
    ELSE IF c = "unreadable"
    THEN [S1 EXCEPT !.crashed = TRUE, !.threw = @ \cup {j}]
    ELSE LET h == (S.startEvents[j] * Len(S.startEvents)) + j
             pid == IF c = "spawnfail" THEN NULL ELSE h
             p == [h |-> h, pid |-> pid, job |-> j,
                   st |-> IF c = "spawnfail" THEN "failed" ELSE "run",
                   code |-> IF c = "spawnfail" THEN CodeSpawn ELSE 0,
                   sig |-> FALSE,
                   profile |-> activeRecordingProfileId]
             S2 == [S1 EXCEPT !.procs = @ \cup {p}, !.reg[j] = pid]
         IN DbRun(S2, Stmt("setRecording", j, pid, NULL, NULL))

\* getSettings() returns {} for a settings.json that does not parse, and
\* settings.dvr.recordingProfiles (line 1477) then throws a TypeError that
\* nothing catches
startRecording(S, j, c) ==
    LET S1 == [S EXCEPT !.startEvents[j] = @ + 1] IN
    IF c = "config"
    THEN DbRun(S1, Stmt("setErrorPid", j, NULL, NULL, NULL))
    ELSE IF c = "unreadable"
    THEN [S1 EXCEPT !.crashed = TRUE, !.threw = @ \cup {j}]
    ELSE LET h == (S.startEvents[j] * Len(S.startEvents)) + j    \* a fresh handle
             pid == IF c = "spawnfail" THEN NULL ELSE h
             p == [h |-> h, pid |-> pid, job |-> j,
                   st |-> IF c = "spawnfail" THEN "failed" ELSE "run",
                   code |-> IF c = "spawnfail" THEN CodeSpawn ELSE 0,
                   sig |-> FALSE,
                   profile |-> activeRecordingProfileId]
             S2 == [S1 EXCEPT !.procs = @ \cup {p}, !.reg[j] = pid]
         IN DbRun(S2, Stmt("setRecording", j, pid, NULL, NULL))

\* if (activeDvrJobs.has(id)) { activeDvrJobs.get(id).cancel(); activeDvrJobs.delete(id); }
CancelTimer(S, j) ==
    CASE S.active[j] = "armed" ->
            [S EXCEPT !.pendingStart[j] = @ - 1, !.active[j] = "none"]
      [] S.active[j] = "spent" -> [S EXCEPT !.active[j] = "none"]
      [] OTHER -> S

\* scheduleDvrJob without the early return of the past-window branch
scheduleDvrJob_NoReturn(S, j, status, startTime, endTime, c) ==
    LET S1 == CancelTimer(S, j)
        S2 == IF endTime <= now /\ status = "scheduled"
              THEN DbRun([S1 EXCEPT !.pastWindow = @ \cup {j}],
                         Stmt("setError", j, NULL, NULL, NULL))
              ELSE S1
        S3 == IF startTime > now
              THEN [S2 EXCEPT !.pendingStart[j] = @ + 1, !.active[j] = "armed"]
              ELSE startRecording(S2, j, c)
    IN IF S3.crashed THEN S3 ELSE [S3 EXCEPT !.pendingStop[j] = @ + 1]

\* scheduleDvrJob that starts every job of an open window at once
scheduleDvrJob_StartsNow(S, j, status, startTime, endTime, c) ==
    LET S1 == CancelTimer(S, j) IN
    IF endTime <= now
    THEN IF status = "scheduled"
         THEN DbRun([S1 EXCEPT !.pastWindow = @ \cup {j}],
                    Stmt("setError", j, NULL, NULL, NULL))
         ELSE S1
    ELSE LET S2 == startRecording(S1, j, c)
         IN IF S2.crashed THEN S2 ELSE [S2 EXCEPT !.pendingStop[j] = @ + 1]

\* scheduleDvrJob(job) for a job object with the given status and window
scheduleDvrJob(S, j, status, startTime, endTime, c) ==
    LET S1 == CancelTimer(S, j) IN
    IF endTime <= now
    THEN IF status = "scheduled"
         THEN DbRun([S1 EXCEPT !.pastWindow = @ \cup {j}],
                    Stmt("setError", j, NULL, NULL, NULL))
         ELSE S1
    ELSE LET S2 == IF startTime > now
                   THEN [S1 EXCEPT !.pendingStart[j] = @ + 1,
                                   !.active[j] = "armed"]
                   ELSE startRecording(S1, j, c)
         IN IF S2.crashed THEN S2 ELSE [S2 EXCEPT !.pendingStop[j] = @ + 1]

RECURSIVE ScheduleAll(_, _, _)
\* jobs.forEach(scheduleDvrJob) over the rows returned by the SELECT; an
\* exception ends the loop
ScheduleAll(S, ids, ch) ==
    IF ids = <<>> \/ S.crashed THEN S
    ELSE LET j == Head(ids) IN
         ScheduleAll(scheduleDvrJob(S, j, jobs[j].status, jobs[j].startTime,
                                    jobs[j].endTime, ch[j]),
                     Tail(ids), ch)

\* a SELECT without its WHERE clause: every row, in rowid order
IdsWhere_AnyStatus(n, status) == [i \in 1..n |-> i]

RECURSIVE IdsWhere(_, _)
\* the ids 1..n of the rows with the given status, in rowid order
IdsWhere(n, status) ==
    IF n = 0 THEN <<>>
    ELSE IF jobs[n].status = status
         THEN Append(IdsWhere(n - 1, status), n)
         ELSE IdsWhere(n - 1, status)

\* the success condition that accepts an empty output file
RecordingSucceeded_AnyFile(code, size) == code = 0 /\ size # Missing

\* the success condition without the look at the output file
RecordingSucceeded_CodeOnly(code, size) == code = 0

\* the condition under which the 'close' handler records a success
RecordingSucceeded(code, size) == code = 0 /\ size # Missing /\ size > 0

\* no pure function is under examination
NoCall == [fn |-> "none"]

\* the server after construction: no job, no timer, no process; ids are the
\* job ids the tables of the engine have room for
ServerInitOf(ids) ==
    /\ now = 0
    /\ boots = 1
    /\ bootPhase = "init"
    /\ jobs = <<>>
    /\ recordings = {}
    /\ files = [j \in ids |-> Missing]
    /\ dbq = <<>>
    /\ pendingStart = [j \in ids |-> 0]
    /\ pendingStop = [j \in ids |-> 0]
    /\ activeDvrJobs = [j \in ids |-> "none"]
    /\ runningFFmpegProcesses = [j \in ids |-> Absent]
    /\ procs = {}
    /\ pendingUnlink = {}
    /\ startEvents = [j \in ids |-> 0]
    /\ stopFirings = [j \in ids |-> 0]
    /\ cleanSeen = {}
    /\ recordingAtBoot = {}
    /\ pastWindow = {}
    /\ cancelledEarly = {}
    /\ activeRecordingProfileId = 1
    /\ cancelledRecording = {}
    /\ threw = {}
    /\ errored = {}
    /\ lastRecordingId = 0
    /\ requested = <<>>
    /\ recResponse = [user |-> NULL, status |-> "none"]

ServerInit == ServerInitOf(JobIds)

Init == ServerInit /\ call = NoCall

\* a step that answers no DELETE /api/dvr/recordings/:id request
NoRecResponse == recResponse' = [user |-> NULL, status |-> "none"]

\* groups of variables, for UNCHANGED
dbVars == <<jobs, recordings, lastRecordingId>>
histVars == <<stopFirings, cleanSeen, recordingAtBoot, cancelledEarly,
              cancelledRecording, errored, requested>>
envVars == <<now, boots, bootPhase, files, pendingUnlink,
             activeRecordingProfileId>>
engineVars == <<pendingStart, pendingStop, activeDvrJobs,
                runningFFmpegProcesses, procs, startEvents, pastWindow, threw>>

\* the server process ends and a new one starts: timers, Maps, submitted
\* statements, pending callbacks and the child processes are gone
ProcessDies ==
    /\ boots' = boots + 1
    /\ bootPhase' = "init"
    /\ dbq' = <<>>
    /\ pendingStart' = [j \in DOMAIN pendingStart |-> 0]
    /\ pendingStop' = [j \in DOMAIN pendingStop |-> 0]
    /\ activeDvrJobs' = [j \in DOMAIN activeDvrJobs |-> "none"]
    /\ runningFFmpegProcesses' = [j \in DOMAIN runningFFmpegProcesses |-> Absent]
    /\ procs' = {}
    /\ pendingUnlink' = {}
    /\ startEvents' = [j \in DOMAIN startEvents |-> 0]
    /\ stopFirings' = [j \in DOMAIN stopFirings |-> 0]
    /\ recordingAtBoot' = {j \in DOMAIN jobs' : jobs'[j].status = "recording"}

\* the end of a callback that has brought the engine to S: an exception that
\* left startRecording is uncaught and ends the process
Finish(S, phase) ==
    IF S.crashed
    THEN /\ boots < MaxBoots
         /\ ProcessDies
         /\ pastWindow' = S.pastWindow
         /\ threw' = S.threw
    ELSE /\ SetMem(S)
         /\ bootPhase' = phase
         /\ UNCHANGED <<boots, pendingUnlink, stopFirings, recordingAtBoot>>

\* time passes
Tick ==
    /\ NoRecResponse
    /\ UNCHANGED call
    /\ now < MaxTime
    /\ now' = now + 1
    /\ UNCHANGED <<boots, bootPhase, files, pendingUnlink, dbq,
                   activeRecordingProfileId>>
    /\ UNCHANGED <<dbVars, histVars, engineVars>>

\* ---- timers ----
\* a start job armed at line 1584 fires: startRecording(job).  ref tells
\* whether the fired job is the one activeDvrJobs still refers to.
FireStart(j, ref) ==
    /\ NoRecResponse
    /\ UNCHANGED call
    /\ pendingStart[j] > 0
    /\ jobs[j].startTime <= now
    /\ IF ref THEN activeDvrJobs[j] = "armed"
       ELSE pendingStart[j] > (IF activeDvrJobs[j] = "armed" THEN 1 ELSE 0)
    /\ UNCHANGED dbVars
    /\ \E c \in SpawnOutcomes :
          Finish(startRecording(
                    [Mem EXCEPT !.pendingStart[j] = @ - 1,
                                !.active[j] = IF ref THEN "spent" ELSE @],
                    j, c),
                 bootPhase)
    /\ UNCHANGED <<now, files, activeRecordingProfileId, cleanSeen,
                   cancelledEarly, cancelledRecording, errored, requested>>

\* a signal that reaches no process
Kill_Nothing(ps, pid) == ps

\* process.kill(pid, 'SIGTERM'): only a live process with that pid notices
Kill(ps, pid) ==
    {IF p.pid = pid /\ p.st = "run" THEN [p EXCEPT !.sig = TRUE] ELSE p : p \in ps}

\* a stop job armed at line 1592 fires
FireStop(j) ==
    /\ NoRecResponse
    /\ UNCHANGED call
    /\ pendingStop[j] > 0
    /\ jobs[j].endTime <= now
    /\ pendingStop' = [pendingStop EXCEPT ![j] = @ - 1]
    /\ stopFirings' = [stopFirings EXCEPT ![j] = @ + 1]
    /\ procs' = IF runningFFmpegProcesses[j] \notin {Absent, NULL}
                THEN Kill(procs, runningFFmpegProcesses[j])
                ELSE procs
    /\ UNCHANGED <<dbq, pendingStart, activeDvrJobs, runningFFmpegProcesses,
                   startEvents, pastWindow, threw>>
    /\ UNCHANGED <<dbVars, envVars, cleanSeen, recordingAtBoot, cancelledEarly,
                   cancelledRecording, errored, requested>>

\* ---- HTTP handlers ----
HttpPending ==
    Cardinality({i \in DOMAIN dbq :
                    dbq[i].op \in {"insertJob", "cancel", "recSelect", "recDelete"}})
PendingInserts == Cardinality({i \in DOMAIN dbq : dbq[i].op = "insertJob"})

\* a schedule request that stores the programme's own start and stop
PostSchedule_NoBuffers(u, programStart, programStop, preBuffer, postBuffer) ==
    /\ NoRecResponse
    /\ UNCHANGED call
    /\ HttpPending < MaxQueue
    /\ Len(jobs) + PendingInserts < Len(files)
    /\ dbq' = Append(dbq,
            [Stmt("insertJob", NULL, u, programStart, programStop)
             EXCEPT !.d = activeRecordingProfileId,
                    !.e = [programStart |-> programStart,
                           programStop |-> programStop,
                           preBufferMinutes |-> preBuffer,
                           postBufferMinutes |-> postBuffer]])
    /\ UNCHANGED <<dbVars, histVars, envVars, engineVars>>

\* POST /api/dvr/schedule
PostSchedule(u, programStart, programStop, preBuffer, postBuffer) ==
    /\ NoRecResponse
    /\ UNCHANGED call
    /\ HttpPending < MaxQueue
    /\ Len(jobs) + PendingInserts < Len(files)
    /\ dbq' = Append(dbq,
            [Stmt("insertJob", NULL, u,
                  FromMs(ToMs(programStart) - (preBuffer * MsPerMinute)),
                  FromMs(ToMs(programStop) + (postBuffer * MsPerMinute)))
             EXCEPT !.d = activeRecordingProfileId,
                    !.e = [programStart |-> programStart,
                           programStop |-> programStop,
                           preBufferMinutes |-> preBuffer,
                           postBufferMinutes |-> postBuffer]])
    /\ UNCHANGED <<dbVars, histVars, envVars, engineVars>>

\* a cancel request that removes the owner's row instead of updating it
DeleteJob_RemovesRow(u, j) ==
    /\ NoRecResponse
    /\ UNCHANGED call
    /\ HttpPending < MaxQueue
    /\ j \in DOMAIN jobs /\ jobs[j].user_id = u
    /\ jobs' = SubSeq(jobs, 1, j - 1) \o SubSeq(jobs, j + 1, Len(jobs))
    /\ SetMem(CancelTimer(Mem, j))
    /\ UNCHANGED <<recordings, lastRecordingId, envVars, histVars>>

\* DELETE /api/dvr/jobs/:id
DeleteJob(u, j) ==
    /\ NoRecResponse
    /\ UNCHANGED call
    /\ HttpPending < MaxQueue
    /\ SetMem(DbRun(CancelTimer(Mem, j), Stmt("cancel", j, u, NULL, NULL)))
    /\ UNCHANGED <<dbVars, envVars, histVars>>

\* POST /api/save/settings with a dvr section naming another active profile
SaveSettings(profile) ==
    /\ NoRecResponse
    /\ UNCHANGED call
    /\ profile # activeRecordingProfileId
    /\ activeRecordingProfileId' = profile
    /\ UNCHANGED <<now, boots, bootPhase, files, pendingUnlink, dbq>>
    /\ UNCHANGED <<dbVars, histVars, engineVars>>

\* ---- sqlite executes the oldest submitted statement; its callback runs ----
Popped == [Mem EXCEPT !.dbq = Tail(@)]

NewJob(s) == [user_id |-> s.a, startTime |-> s.b, endTime |-> s.c,
              status |-> "scheduled", ffmpeg_pid |-> NULL, profileId |-> s.d,
              preBufferMinutes |-> s.e.preBufferMinutes,
              postBufferMinutes |-> s.e.postBufferMinutes]

\* INSERT INTO dvr_jobs, then scheduleDvrJob(jobWithId)
ExecInsertJob ==
    /\ NoRecResponse
    /\ UNCHANGED call
    /\ dbq # <<>> /\ Head(dbq).op = "insertJob"
    /\ LET s == Head(dbq) IN
       /\ jobs' = Append(jobs, NewJob(s))
       /\ requested' = Append(requested, [programStart |-> s.e.programStart,
                                          programStop |-> s.e.programStop])
       /\ \E c \in SpawnOutcomes :
             Finish(scheduleDvrJob(Popped, Len(jobs) + 1, "scheduled",
                                   s.b, s.c, c),
                    bootPhase)
    /\ UNCHANGED <<recordings, lastRecordingId, now, files,
                   activeRecordingProfileId, cleanSeen, cancelledEarly,
                   cancelledRecording, errored>>

\* the single-row UPDATE statements of dvr_jobs
UpdateRow(row, s) ==
    CASE s.op = "setRecording" ->
            [row EXCEPT !.status = "recording", !.ffmpeg_pid = s.a]
      [] s.op = "setErrorPid" ->
            [row EXCEPT !.status = "error", !.ffmpeg_pid = NULL]
      [] s.op = "setError" ->
            [row EXCEPT !.status = "error"]
      [] s.op = "setCompleted" ->
            [row EXCEPT !.status = "completed", !.ffmpeg_pid = NULL]
      [] s.op = "cancel" ->
            IF row.user_id = s.a THEN [row EXCEPT !.status = "cancelled"]
            ELSE row

\* the owner's cancel reaches a row that is 'scheduled' and was never started
CancelsEarly(s) ==
    /\ s.op = "cancel"
    /\ s.id \in DOMAIN jobs
    /\ jobs[s.id].user_id = s.a
    /\ jobs[s.id].status = "scheduled"
    /\ startEvents[s.id] = 0

\* the owner's cancel reaches a row that is 'recording'
CancelsRecording(s) ==
    /\ s.op = "cancel"
    /\ s.id \in DOMAIN jobs
    /\ jobs[s.id].user_id = s.a
    /\ jobs[s.id].status = "recording"

ExecUpdate ==
    /\ NoRecResponse
    /\ UNCHANGED call
    /\ dbq # <<>>
    /\ Head(dbq).op \in {"setRecording", "setErrorPid", "setError",
                         "setCompleted", "cancel"}
    /\ LET s == Head(dbq) IN
       /\ jobs' = [i \in DOMAIN jobs |->
                      IF i = s.id THEN UpdateRow(jobs[i], s) ELSE jobs[i]]
       /\ cancelledEarly' = IF CancelsEarly(s)
                            THEN cancelledEarly \cup {s.id}
                            ELSE cancelledEarly
       /\ cancelledRecording' = IF CancelsRecording(s)
                                THEN cancelledRecording \cup {s.id}
                                ELSE cancelledRecording
    /\ errored' = errored \cup {j \in DOMAIN jobs' : jobs'[j].status = "error"}
    /\ dbq' = Tail(dbq)
    /\ UNCHANGED <<recordings, lastRecordingId, envVars, engineVars,
                   stopFirings, cleanSeen, recordingAtBoot, requested>>

\* INSERT INTO dvr_recordings; filePath is UNIQUE, one path per job id
ExecInsertRecording ==
    /\ NoRecResponse
    /\ UNCHANGED call
    /\ dbq # <<>> /\ Head(dbq).op = "insertRecording"
    /\ LET s == Head(dbq) IN
       IF \E r \in recordings : r.job = s.id
       THEN UNCHANGED <<recordings, lastRecordingId>>
       ELSE /\ lastRecordingId' = lastRecordingId + 1
            /\ recordings' = recordings \cup
                  {[id |-> lastRecordingId + 1, job |-> s.id, user_id |-> s.c,
                    size |-> s.a, duration |-> s.b]}
    /\ dbq' = Tail(dbq)
    /\ UNCHANGED <<jobs, histVars, envVars, engineVars>>

\* DELETE /api/dvr/recordings/:id
DeleteRecording(u, id) ==
    /\ NoRecResponse
    /\ UNCHANGED call
    /\ HttpPending < MaxQueue
    /\ dbq' = Append(dbq, Stmt("recSelect", id, u, NULL, NULL))
    /\ UNCHANGED <<dbVars, histVars, envVars, engineVars>>

\* the lookup without the user_id condition
RecordingOf_AnyUser(id, u) == {r \in recordings : r.id = id}

\* SELECT filePath FROM dvr_recordings WHERE id = ? AND user_id = ?
RecordingOf(id, u) == {r \in recordings : r.id = id /\ r.user_id = u}

\* the SELECT of DELETE /api/dvr/recordings/:id and its callback
ExecRecSelect ==
    /\ UNCHANGED call
    /\ dbq # <<>> /\ Head(dbq).op = "recSelect"
    /\ LET s == Head(dbq)
           rows == RecordingOf(s.id, s.a)
       IN IF rows = {}
          THEN /\ dbq' = Tail(dbq)
               /\ recResponse' = [user |-> s.a, status |-> "notFound"]
               /\ UNCHANGED pendingUnlink
          ELSE /\ dbq' = Append(Tail(dbq),
                                Stmt("recDelete", s.id, s.a, NULL, NULL))
               /\ pendingUnlink' =
                     pendingUnlink \cup
                        {r.job : r \in {x \in rows : files[x.job] # Missing}}
               /\ NoRecResponse
    /\ UNCHANGED <<dbVars, engineVars, now, boots, bootPhase, files,
                   activeRecordingProfileId, stopFirings, cleanSeen,
                   recordingAtBoot, cancelledEarly, cancelledRecording,
                   errored, requested>>

\* DELETE FROM dvr_recordings WHERE id = ?
ExecRecDelete ==
    /\ UNCHANGED call
    /\ dbq # <<>> /\ Head(dbq).op = "recDelete"
    /\ recordings' = {r \in recordings : r.id # Head(dbq).id}
    /\ recResponse' = [user |-> Head(dbq).a, status |-> "success"]
    /\ dbq' = Tail(dbq)
    /\ UNCHANGED <<jobs, lastRecordingId, envVars, engineVars, stopFirings,
                   cleanSeen, recordingAtBoot, cancelledEarly,
                   cancelledRecording, errored, requested>>

\* loadAndScheduleAllDvrJobs() is called once the tables exist
loadAndScheduleAllDvrJobs ==
    /\ NoRecResponse
    /\ UNCHANGED call
    /\ bootPhase = "init"
    /\ bootPhase' = "updating"
    /\ dbq' = Append(dbq, Stmt("reconcile", NULL, NULL, NULL, NULL))
    /\ UNCHANGED <<dbVars, histVars, engineVars, now, boots, files,
                   pendingUnlink, activeRecordingProfileId>>

\* a reconciliation whose UPDATE changes no row
ExecReconcile_NoFlip ==
    /\ NoRecResponse
    /\ UNCHANGED call
    /\ dbq # <<>> /\ Head(dbq).op = "reconcile"
    /\ dbq' = Append(Tail(dbq), Stmt("select", NULL, NULL, NULL, NULL))
    /\ bootPhase' = "selecting"
    /\ errored' = errored \cup {j \in DOMAIN jobs : jobs[j].status = "error"}
    /\ UNCHANGED <<dbVars, engineVars, now, boots, files,
                   pendingUnlink, activeRecordingProfileId, stopFirings,
                   cleanSeen, recordingAtBoot, cancelledEarly,
                   cancelledRecording, requested>>

\* UPDATE dvr_jobs SET status = 'error' WHERE status = 'recording'
ExecReconcile ==
    /\ NoRecResponse
    /\ UNCHANGED call
    /\ dbq # <<>> /\ Head(dbq).op = "reconcile"
    /\ jobs' = [i \in DOMAIN jobs |->
                   IF jobs[i].status = "recording"
                   THEN [jobs[i] EXCEPT !.status = "error"]
                   ELSE jobs[i]]
    /\ dbq' = Append(Tail(dbq), Stmt("select", NULL, NULL, NULL, NULL))
    /\ bootPhase' = "selecting"
    /\ errored' = errored \cup {j \in DOMAIN jobs' : jobs'[j].status = "error"}
    /\ UNCHANGED <<recordings, lastRecordingId, engineVars, now, boots, files,
                   pendingUnlink, activeRecordingProfileId, stopFirings,
                   cleanSeen, recordingAtBoot, cancelledEarly,
                   cancelledRecording, requested>>

\* SELECT * FROM dvr_jobs WHERE status = 'scheduled', then forEach
ExecSelect ==
    /\ NoRecResponse
    /\ UNCHANGED call
    /\ dbq # <<>> /\ Head(dbq).op = "select"
    /\ UNCHANGED dbVars
    /\ \E ch \in [DOMAIN files -> SpawnOutcomes] :
          Finish(ScheduleAll(Popped, IdsWhere(Len(jobs), "scheduled"), ch),
                 "done")
    /\ UNCHANGED <<now, files, activeRecordingProfileId, cleanSeen,
                   cancelledEarly, cancelledRecording, errored, requested>>

\* ---- the transcoder process and its handlers ----
SetProc(p, q) == (procs \ {p}) \cup {q}

\* the running transcoder writes to its output file
ProcWrite(p, size) ==
    /\ NoRecResponse
    /\ UNCHANGED call
    /\ p \in procs /\ p.st = "run"
    /\ size > files[p.job]
    /\ files' = [files EXCEPT ![p.job] = size]
    /\ UNCHANGED <<now, boots, bootPhase, pendingUnlink, dbq,
                   activeRecordingProfileId>>
    /\ UNCHANGED <<dbVars, histVars, engineVars>>

\* the transcoder ends: by itself, or by the signal it was sent
ProcExit(p, code) ==
    /\ NoRecResponse
    /\ UNCHANGED call
    /\ p \in procs /\ p.st = "run"
    /\ code \in ExitCodes \cup (IF p.sig THEN {CodeSignal} ELSE {})
    /\ procs' = SetProc(p, [p EXCEPT !.st = "exited", !.code = code])
    /\ UNCHANGED <<dbq, pendingStart, pendingStop, activeDvrJobs,
                   runningFFmpegProcesses, startEvents, pastWindow, threw>>
    /\ UNCHANGED <<dbVars, histVars, envVars>>

\* an 'error' handler that only logs
OnSpawnError_LogOnly(p) ==
    /\ NoRecResponse
    /\ UNCHANGED call
    /\ p \in procs /\ p.st = "failed"
    /\ SetMem([Mem EXCEPT !.procs = SetProc(p, [p EXCEPT !.st = "exited"])])
    /\ UNCHANGED <<dbVars, histVars, envVars>>

\* ffmpeg.on('error'): the process could not be spawned; 'close' follows
OnSpawnError(p) ==
    /\ NoRecResponse
    /\ UNCHANGED call
    /\ p \in procs /\ p.st = "failed"
    /\ SetMem(DbRun([Mem EXCEPT !.reg[p.job] = Absent,
                                !.procs = SetProc(p, [p EXCEPT !.st = "exited"])],
                    Stmt("setErrorPid", p.job, NULL, NULL, NULL)))
    /\ UNCHANGED <<dbVars, histVars, envVars>>

\* a duration measured up to the moment the process has exited
DurationSeconds_Elapsed(j) ==
    (ToMs(now) - ToMs(jobs[j].startTime)) \div MsPerSecond

\* Math.round((new Date(job.endTime) - new Date(job.startTime)) / 1000)
DurationSeconds(j) ==
    (ToMs(jobs[j].endTime) - ToMs(jobs[j].startTime)) \div MsPerSecond

\* ffmpeg.on('close') together with its fs.stat callback
OnClose(p) ==
    /\ NoRecResponse
    /\ UNCHANGED call
    /\ p \in procs /\ p.st = "exited"
    /\ runningFFmpegProcesses' = [runningFFmpegProcesses EXCEPT ![p.job] = Absent]
    /\ LET j == p.job
           size == files[j]
       IN /\ IF RecordingSucceeded(p.code, size)
             THEN /\ dbq' = dbq \o <<Stmt("insertRecording", j, size,
                                          DurationSeconds(j),
                                          jobs[j].user_id),
                                     Stmt("setCompleted", j, NULL, NULL, NULL)>>
                  /\ UNCHANGED pendingUnlink
             ELSE /\ dbq' = Append(dbq, Stmt("setErrorPid", j, NULL, NULL, NULL))
                  /\ pendingUnlink' = IF size # Missing
                                      THEN pendingUnlink \cup {j}
                                      ELSE pendingUnlink
          /\ cleanSeen' = IF p.code = 0 /\ size >= 1
                          THEN cleanSeen \cup {j} ELSE cleanSeen
    /\ procs' = procs \ {p}
    /\ UNCHANGED <<pendingStart, pendingStop, activeDvrJobs, startEvents,
                   pastWindow, threw>>
    /\ UNCHANGED <<dbVars, now, boots, bootPhase, files, stopFirings,
                   recordingAtBoot, cancelledEarly, cancelledRecording,
                   errored, requested, activeRecordingProfileId>>

\* fs.unlink(fullFilePath) completes
Unlink(j) ==
    /\ NoRecResponse
    /\ UNCHANGED call
    /\ j \in pendingUnlink
    /\ pendingUnlink' = pendingUnlink \ {j}
    /\ files' = [files EXCEPT ![j] = Missing]
    /\ UNCHANGED <<now, boots, bootPhase, dbq, activeRecordingProfileId>>
    /\ UNCHANGED <<dbVars, histVars, engineVars>>

\* the server process dies and is started again: everything in memory is
\* gone, the child processes die with it, the tables and files stay
Restart ==
    /\ NoRecResponse
    /\ UNCHANGED call
    /\ boots < MaxBoots
    /\ UNCHANGED dbVars
    /\ ProcessDies
    /\ UNCHANGED <<now, files, pastWindow, cleanSeen, cancelledEarly,
                   cancelledRecording, threw, errored, requested,
                   activeRecordingProfileId>>

Next ==
    \/ Tick
    \/ \E j \in DOMAIN jobs, ref \in BOOLEAN : FireStart(j, ref)
    \/ \E j \in DOMAIN jobs : FireStop(j)
    \/ \E u \in Owners, ps \in ProgramTimes, pe \in ProgramTimes,
          pre \in Buffers, post \in Buffers :
          PostSchedule(u, ps, pe, pre, post)
    \/ \E u \in Users, j \in JobIds : DeleteJob(u, j)
    \/ ExecInsertJob
    \/ ExecUpdate
    \/ ExecInsertRecording
    \/ \E u \in Users, id \in RecordingIds : DeleteRecording(u, id)
    \/ ExecRecSelect
    \/ ExecRecDelete
    \/ loadAndScheduleAllDvrJobs
    \/ ExecReconcile
    \/ ExecSelect
    \/ \E p \in procs, size \in 0..MaxFileSize : ProcWrite(p, size)
    \/ \E p \in procs, code \in ExitCodes \cup {CodeSignal} : ProcExit(p, code)
    \/ \E p \in procs : OnSpawnError(p)
    \/ \E p \in procs : OnClose(p)
    \/ \E j \in JobIds : Unlink(j)
    \/ Restart

Spec == Init /\ [][Next]_vars

\* the engine of one installation whose settings are edited while jobs are
\* scheduled and recorded, without cancel requests and operator restarts
NextSettings ==
    \/ \E profile \in Profiles : SaveSettings(profile)
    \/ Tick
    \/ \E j \in DOMAIN jobs, ref \in BOOLEAN : FireStart(j, ref)
    \/ \E j \in DOMAIN jobs : FireStop(j)
    \/ \E u \in Owners, ps \in ProgramTimes, pe \in ProgramTimes,
          pre \in Buffers, post \in Buffers :
          PostSchedule(u, ps, pe, pre, post)
    \/ ExecInsertJob
    \/ ExecUpdate
    \/ ExecInsertRecording
    \/ \E u \in Users, id \in RecordingIds : DeleteRecording(u, id)
    \/ ExecRecSelect
    \/ ExecRecDelete
    \/ loadAndScheduleAllDvrJobs
    \/ ExecReconcile
    \/ ExecSelect
    \/ \E p \in procs, size \in 0..MaxFileSize : ProcWrite(p, size)
    \/ \E p \in procs, code \in ExitCodes \cup {CodeSignal} : ProcExit(p, code)
    \/ \E p \in procs : OnSpawnError(p)
    \/ \E p \in procs : OnClose(p)
    \/ \E j \in JobIds : Unlink(j)

SpecSettings == Init /\ [][NextSettings]_vars

\* ---- the output file of startRecording, as a pure function ----
\* every variable of the server
serverVars == <<now, boots, bootPhase, jobs, recordings, files, dbq, pendingStart,
                pendingStop, activeDvrJobs, runningFFmpegProcesses, procs,
                pendingUnlink, startEvents, stopFirings, cleanSeen,
                recordingAtBoot, pastWindow, cancelledEarly,
                activeRecordingProfileId, cancelledRecording, threw, errored,
                lastRecordingId, requested, recResponse>>

\* strings are sequences of characters
DigitChars == <<"0", "1", "2", "3", "4", "5", "6", "7", "8", "9">>
LowerChars == {"a", "b"}
UpperChars == {"A", "B"}
TitleChars == {"a", "B", "1", "_", " "}
MaxTitleLen == 2
MaxFileId == 12
Titles == UNION {[1..k -> TitleChars] : k \in 0..MaxTitleLen}
FileJobs == [id : 1..MaxFileId, programTitle : Titles]

\* the decimal digits of an integer, as a template literal prints it
RECURSIVE Digits(_)
Digits(n) ==
    IF n < 10 THEN <<DigitChars[n + 1]>>
    ELSE Digits(n \div 10) \o <<DigitChars[(n % 10) + 1]>>

Range(s) == {s[i] : i \in DOMAIN s}

\* /[^a-z0-9]/gi: what the pattern does not match stays
IsAlnum(ch) == ch \in LowerChars \cup UpperChars \cup Range(DigitChars)

toLowerCase(ch) ==
    CASE ch = "A" -> "a"
      [] ch = "B" -> "b"
      [] OTHER -> ch

\* programTitle.replace(/[^a-z0-9]/gi, '_').toLowerCase()
Sanitized(title) ==
    [i \in DOMAIN title |-> toLowerCase(IF IsAlnum(title[i]) THEN title[i] ELSE "_")]

Mp4 == <<".", "m", "p", "4">>
DVR_DIR == <<"/", "d", "v", "r">>

\* the file name without the separator between id and title
safeFilename_NoSeparator(job) ==
    Digits(job.id) \o Sanitized(job.programTitle) \o Mp4

safeFilename(job) ==
    Digits(job.id) \o <<"_">> \o Sanitized(job.programTitle) \o Mp4

\* path.join(DVR_DIR, safeFilename): the name holds no separator and no '..'
fullFilePath(job) == DVR_DIR \o <<"/">> \o safeFilename(job)

InitFileName ==
    /\ ServerInit
    /\ \E a \in FileJobs, b \in FileJobs :
          call = [fn |-> "safeFilename", a |-> a, b |-> b, out |-> <<>>]

\* startRecording computes the output path of two jobs
CallFileName ==
    /\ call.fn = "safeFilename"
    /\ call.out = <<>>
    /\ call' = [call EXCEPT !.out = <<fullFilePath(call.a), fullFilePath(call.b)>>]
    /\ UNCHANGED serverVars

NextFileName == CallFileName

SpecFileName == InitFileName /\ [][NextFileName]_vars

\* ---- the command of startRecording, as a pure function ----
\* a string is a sequence of pieces: a space, a quote, a placeholder, or text
\* that holds none of them
Placeholders == {"{streamUrl}", "{userAgent}", "{filePath}"}

\* the command of the default recording profile
DefaultCommand ==
    <<"-user_agent", " ", "\"", "{userAgent}", "\"", " ", "-i", " ", "\"",
      "{streamUrl}", "\"", " ", "-c:v", " ", "libx264", " ", "-preset", " ",
      "veryfast", " ", "-crf", " ", "23", " ", "-c:a", " ", "aac", " ", "-b:a",
      " ", "128k", " ", "-movflags", " ", "+faststart", " ", "-f", " ", "mp4",
      " ", "\"", "{filePath}", "\"">>

\* commands of profiles an administrator saved: the executable first, no
\* quotes; the second one with two spaces in a row
FfmpegCommand ==
    <<"ffmpeg", " ", "-user_agent", " ", "{userAgent}", " ", "-i", " ",
      "{streamUrl}", " ", "-f", " ", "mp4", " ", "{filePath}">>
CopyCommand ==
    <<"ffmpeg", " ", " ", "-i", " ", "{streamUrl}", " ", "-user_agent", " ",
      "{userAgent}", " ", "-c", " ", "copy", " ", "{filePath}">>
Commands == {DefaultCommand, FfmpegCommand, CopyCommand}

\* values of user agents: the default one first
UserAgentValues ==
    {<<"VLC/3.0.20", " ", "(Linux;", " ", "x86_64)">>, <<"Mozilla/5.0">>,
     <<"ViniPlay", " ", "DVR">>, <<"curl/8">>}
StreamUrls ==
    {<<"http://host/live.ts">>, <<"http://host/live.m3u8?token=1">>,
     <<"rtsp://cam/1">>}
OutputJobs ==
    {[id |-> 1, programTitle |-> <<"a">>], [id |-> 2, programTitle |-> <<"B", " ">>],
     [id |-> 12, programTitle |-> <<>>]}

\* String.prototype.replace with a global pattern: every occurrence of the
\* placeholder, computed on the two halves of the string
RECURSIVE replace(_, _, _)
replace(str, pattern, value) ==
    IF str = <<>> THEN <<>>
    ELSE IF Len(str) = 1 THEN (IF str[1] = pattern THEN value ELSE str)
    ELSE LET half == Len(str) \div 2
         IN  replace(SubSeq(str, 1, half), pattern, value)
             \o replace(SubSeq(str, half + 1, Len(str)), pattern, value)

\* String.prototype.split(' '): the pieces between the spaces, empty ones
\* too; the last piece of the left half continues in the right half
RECURSIVE split(_)
split(str) ==
    IF str = <<>> THEN << <<>> >>
    ELSE IF Len(str) = 1 THEN (IF str[1] = " " THEN << <<>>, <<>> >> ELSE <<str>>)
    ELSE LET half == Len(str) \div 2
             left == split(SubSeq(str, 1, half))
             right == split(SubSeq(str, half + 1, Len(str)))
         IN  SubSeq(left, 1, Len(left) - 1)
             \o << left[Len(left)] \o Head(right) >> \o Tail(right)

commandTemplate(command, streamUrl, userAgent, filePath) ==
    replace(replace(replace(command, "{streamUrl}", streamUrl),
                    "{userAgent}", userAgent), "{filePath}", filePath)

\* spawn(command, args) without options: no shell
spawn(command, args) == [command |-> command, args |-> args, shell |-> FALSE]

\* lines 1496-1505: substitute, tokenize, take the first token as command
Materialize(command, streamUrl, userAgent, filePath) ==
    LET args == SelectSeq(split(commandTemplate(command, streamUrl, userAgent, filePath)),
                          LAMBDA arg : arg # <<>>)
    IN  spawn(Head(args), Tail(args))

InitCommand ==
    /\ ServerInit
    /\ \E c \in Commands, u \in StreamUrls, a \in UserAgentValues, j \in OutputJobs :
          call = [fn |-> "spawn", command |-> c, streamUrl |-> u, userAgent |-> a,
                  filePath |-> fullFilePath(j), out |-> <<>>]

\* startRecording builds the command of a job and spawns it
CallCommand ==
    /\ call.fn = "spawn"
    /\ call.out = <<>>
    /\ call' = [call EXCEPT !.out = <<Materialize(call.command, call.streamUrl,
                                                  call.userAgent, call.filePath)>>]
    /\ UNCHANGED serverVars

NextCommand == CallCommand

SpecCommand == InitCommand /\ [][NextCommand]_vars

\* ---- the engine with its scheduling ----
\* time passes and due timers fire; the database runs its queued statements;
\* the boot sequence goes on; a process exits and the events of a process are
\* delivered. Requests and restarts of the server are under no obligation.
Fairness ==
    /\ WF_vars(Tick)
    /\ WF_vars(\E j \in DOMAIN jobs, ref \in BOOLEAN : FireStart(j, ref))
    /\ WF_vars(\E j \in DOMAIN jobs : FireStop(j))
    /\ WF_vars(ExecInsertJob)
    /\ WF_vars(ExecUpdate)
    /\ WF_vars(ExecInsertRecording)
    /\ WF_vars(ExecRecSelect)
    /\ WF_vars(ExecRecDelete)
    /\ WF_vars(loadAndScheduleAllDvrJobs)
    /\ WF_vars(ExecReconcile)
    /\ WF_vars(ExecSelect)
    /\ WF_vars(\E p \in procs, code \in ExitCodes \cup {CodeSignal} : ProcExit(p, code))
    /\ WF_vars(\E p \in procs : OnSpawnError(p))
    /\ WF_vars(\E p \in procs : OnClose(p))
    /\ WF_vars(\E j \in JobIds : Unlink(j))

SpecLive == Init /\ [][Next]_vars /\ Fairness

\* ---- two jobs side by side ----
\* the engine with room for two jobs while it serves requests: without
\* operator restarts, the boot-time reconciliation and deletion of recordings;
\* an output file is empty or full
MaxPairJobs == 2
PairIds == 1..MaxPairJobs

InitPair == ServerInitOf(PairIds) /\ call = NoCall

NextPair ==
    \/ Tick
    \/ \E j \in DOMAIN jobs, ref \in BOOLEAN : FireStart(j, ref)
    \/ \E j \in DOMAIN jobs : FireStop(j)
    \/ \E u \in Owners, ps \in ProgramTimes, pe \in ProgramTimes,
          pre \in Buffers, post \in Buffers :
          PostSchedule(u, ps, pe, pre, post)
    \/ \E u \in Owners, j \in PairIds : DeleteJob(u, j)
    \/ ExecInsertJob
    \/ ExecUpdate
    \/ ExecInsertRecording
    \/ \E p \in procs, size \in {0, MaxFileSize} : ProcWrite(p, size)
    \/ \E p \in procs, code \in ExitCodes \cup {CodeSignal} : ProcExit(p, code)
    \/ \E p \in procs : OnSpawnError(p)
    \/ \E p \in procs : OnClose(p)
    \/ \E j \in PairIds : Unlink(j)

SpecPair == InitPair /\ [][NextPair]_vars

\* ---- vocabulary of the properties ----
\* number of submitted statements of kind op for job j
NumStmt(q, op, j) == Cardinality({i \in DOMAIN q : q[i].op = op /\ q[i].id = j})

\* this step launches a transcoder process for job j
Launch(j) ==
    \E p \in procs' : p.job = j /\ p.pid # NULL /\ p.h \notin {q.h : q \in procs}

\* live transcoder processes of job j
Live(j) == {p \in procs : p.job = j /\ p.st = "run"}

\* nothing of job j is still in flight in this process
Quiet(j) ==
    /\ j \notin pendingUnlink
    /\ \A p \in procs : p.job # j
    /\ \A i \in DOMAIN dbq : dbq[i].id # j

\* C1: however often scheduleDvrJob runs for a job in one process lifetime,
\* startRecording is invoked at most once and at most one stop trigger fires
C1_IdempotentScheduling ==
    \A j \in JobIds : startEvents[j] <= 1 /\ stopFirings[j] <= 1

\* C2: in every state the ids in runningFFmpegProcesses are exactly the ids
\* of the dvr_jobs rows whose status is 'recording'
C2_RegistryConsistency ==
    {j \in JobIds : runningFFmpegProcesses[j] # Absent}
        = {j \in DOMAIN jobs : jobs[j].status = "recording"}

\* C3: for every job, ffmpeg_pid is non-null iff status = 'recording'
C3_PidIffRecording ==
    \A j \in DOMAIN jobs :
        (jobs[j].ffmpeg_pid # NULL) <=> (jobs[j].status = "recording")

\* C4: at most one live transcoder process per job id
C4_OneLiveProcessPerJob == \A j \in JobIds : Cardinality(Live(j)) <= 1

\* a step submits the 'completed' update for j exactly when it is the exit
\* handler of a process of j that ended with code 0 and left a non-empty file
C5_Step ==
    \A j \in JobIds :
        (NumStmt(dbq', "setCompleted", j) > NumStmt(dbq, "setCompleted", j))
        <=> (\E p \in procs \ procs' :
                /\ boots' = boots
                /\ p.job = j /\ p.st = "exited"
                /\ p.code = 0 /\ files[j] >= 1)

\* C5: the exit handler issues the 'completed' write exactly when the process
\* it finalizes ended with code 0 and left a file of size > 0, and a row is
\* 'completed' only if such an exit was seen for the job
C5_ExactlyOneSuccessPath ==
    /\ [][C5_Step]_vars
    /\ [](\A j \in DOMAIN jobs : jobs[j].status = "completed" => j \in cleanSeen)

C5_Witness ==
    \E j \in DOMAIN jobs : jobs[j].status = "completed" /\ j \in cleanSeen

\* C6: once a job has ended in 'error' and nothing of it is in flight any
\* more, its output file does not exist
C6_ErrorLeavesNoFile ==
    \A j \in DOMAIN jobs :
        (jobs[j].status = "error" /\ Quiet(j)) => files[j] = Missing

\* C7: after loadAndScheduleAllDvrJobs has finished, every job that was
\* 'recording' at boot is 'error', has no trigger armed and none has fired
C7_StartupSafety ==
    bootPhase = "done" =>
        \A j \in recordingAtBoot :
            /\ jobs[j].status = "error"
            /\ pendingStart[j] = 0 /\ pendingStop[j] = 0
            /\ startEvents[j] = 0 /\ stopFirings[j] = 0

\* the part of C7 about triggers only
C7_NoTriggers ==
    \A j \in recordingAtBoot :
        /\ pendingStart[j] = 0 /\ pendingStop[j] = 0
        /\ startEvents[j] = 0 /\ stopFirings[j] = 0

\* this step is scheduleDvrJob(job) for a 'scheduled' job j with endTime <= now
PastWindowCall(j) ==
    /\ dbq # <<>>
    /\ \/ /\ Head(dbq).op = "insertJob"
          /\ j = Len(jobs) + 1
          /\ Len(jobs') = Len(jobs) + 1
          /\ Head(dbq).c <= now
       \/ /\ Head(dbq).op = "select"
          /\ bootPhase' = "done"
          /\ j \in DOMAIN jobs
          /\ jobs[j].status = "scheduled"
          /\ jobs[j].endTime <= now

\* what a past-window call does, and what may follow it
C8_Step ==
    \A j \in JobIds :
        /\ PastWindowCall(j) =>
              /\ NumStmt(dbq', "setError", j) = NumStmt(dbq, "setError", j) + 1
              /\ pendingStart'[j] = 0
              /\ pendingStop'[j] = pendingStop[j]
              /\ startEvents'[j] = startEvents[j]
              /\ ~Launch(j)
        /\ j \in pastWindow => ~Launch(j)

\* C8: scheduleDvrJob for a 'scheduled' job whose endTime <= now submits the
\* 'error' update, leaves no start trigger armed, arms no stop trigger and
\* starts nothing; no transcoder is launched for that job afterwards
C8_PastWindow == [][C8_Step]_vars

C8_Witness ==
    \E j \in DOMAIN jobs : j \in pastWindow /\ jobs[j].status = "error"

\* this step applies the owner's cancel to a 'scheduled', never started job j
CancelApplied(j) ==
    /\ dbq # <<>>
    /\ Head(dbq).id = j
    /\ CancelsEarly(Head(dbq))
    /\ dbq' = Tail(dbq)
    /\ boots' = boots

\* the cancel takes effect, and nothing is launched for a cancelled job
C9_Step ==
    \A j \in JobIds :
        /\ CancelApplied(j) => jobs'[j].status = "cancelled"
        /\ j \in cancelledEarly => ~Launch(j)

\* C9: a job cancelled by its owner while 'scheduled' and not yet started
\* becomes 'cancelled', and no transcoder is ever launched for it
C9_CancelBeforeStart == [][C9_Step]_vars

\* this step is the owner's DELETE /api/dvr/jobs/j
OwnerCancelRequest(j) ==
    /\ NumStmt(dbq', "cancel", j) > NumStmt(dbq, "cancel", j)
    /\ j \in DOMAIN jobs
    /\ dbq'[Len(dbq')].a = jobs[j].user_id

\* the registered, running process of j is signalled by the request
C10_Step ==
    \A j \in JobIds :
        (OwnerCancelRequest(j) /\ \E p \in Live(j) : p.pid = runningFFmpegProcesses[j])
        => \E p \in procs' : p.job = j /\ p.pid = runningFFmpegProcesses[j] /\ p.sig

\* C10: the owner's cancel request of a job whose process is registered and
\* running sends that process the termination signal
C10_CancelSignalsProcess == [][C10_Step]_vars

\* once its owner has cancelled a job that was recording, no step turns the
\* job 'completed' and no step stores a Completed Recording row for it
C11_Step ==
    \A j \in cancelledRecording :
        /\ jobs'[j].status = "completed" => jobs[j].status = "completed"
        /\ {r \in recordings' : r.job = j} \subseteq recordings

\* C11: a job cancelled by its owner while it was recording never afterwards
\* becomes 'completed' and never gets a Completed Recording row
C11_CancelledNeverCompleted == [][C11_Step]_vars

\* this step is a DELETE /api/dvr/jobs/j request
CancelRequest(j) == NumStmt(dbq', "cancel", j) > NumStmt(dbq, "cancel", j)

C12_Step ==
    \A j \in JobIds :
        CancelRequest(j) => pendingStart'[j] = 0 /\ pendingStop'[j] = 0

\* C12: after the timer-disarming step of DELETE /api/dvr/jobs/:id neither a
\* start trigger nor a stop trigger of the job is armed
C12_CancelDisarmsBoth == [][C12_Step]_vars

\* this step is a DELETE /api/dvr/jobs/j request of a user who does not own j
ForeignCancelRequest(j) ==
    /\ CancelRequest(j)
    /\ j \in DOMAIN jobs
    /\ dbq'[Len(dbq')].a # jobs[j].user_id

\* this step executes the cancel UPDATE of a user who does not own the job
ForeignCancelApplied(j) ==
    /\ dbq # <<>>
    /\ Head(dbq).op = "cancel" /\ Head(dbq).id = j
    /\ j \in DOMAIN jobs
    /\ Head(dbq).a # jobs[j].user_id
    /\ dbq' = Tail(dbq)
    /\ boots' = boots

C13_Step ==
    \A j \in JobIds :
        (ForeignCancelRequest(j) \/ ForeignCancelApplied(j)) =>
            /\ jobs' = jobs
            /\ pendingStart'[j] = pendingStart[j]
            /\ pendingStop'[j] = pendingStop[j]
            /\ activeDvrJobs'[j] = activeDvrJobs[j]
            /\ runningFFmpegProcesses'[j] = runningFFmpegProcesses[j]

\* C13: a DELETE /api/dvr/jobs/:id of a user who does not own the job leaves
\* its row, its armed start and stop triggers and its registry entry as they
\* were
C13_OwnerScopedCancel == [][C13_Step]_vars

\* this step runs startRecording(j) to its end without creating a child
\* process: the call met a configuration error
ConfigErrorCall(j) ==
    /\ startEvents'[j] = startEvents[j] + 1
    /\ {p.h : p \in procs'} \subseteq {p.h : p \in procs}

\* this step executes an UPDATE ... status = 'error', ffmpeg_pid = NULL of j
ErrorPidApplied(j) ==
    /\ dbq # <<>>
    /\ Head(dbq).op = "setErrorPid" /\ Head(dbq).id = j
    /\ j \in DOMAIN jobs
    /\ dbq' = Tail(dbq)
    /\ boots' = boots

C14_Step ==
    \A j \in JobIds :
        /\ ConfigErrorCall(j) =>
              /\ NumStmt(dbq', "setErrorPid", j)
                    = NumStmt(dbq, "setErrorPid", j) + 1
              /\ NumStmt(dbq', "setRecording", j)
                    = NumStmt(dbq, "setRecording", j)
              /\ runningFFmpegProcesses'[j] = runningFFmpegProcesses[j]
              /\ ~Launch(j)
        /\ ErrorPidApplied(j) =>
              jobs'[j].status = "error" /\ jobs'[j].ffmpeg_pid = NULL

\* C14: a startRecording call that meets a configuration error submits the
\* update to 'error' with ffmpeg_pid NULL, launches nothing, leaves the
\* registry alone and submits no process id; the update, once executed,
\* leaves the row 'error' with ffmpeg_pid NULL
C14_ConfigError == [][C14_Step]_vars

C14_Witness ==
    \E j \in DOMAIN jobs :
        /\ jobs[j].status = "scheduled" /\ jobs[j].ffmpeg_pid = NULL
        /\ startEvents[j] = 1 /\ j \notin threw
        /\ \A p \in procs : p.job # j
        /\ runningFFmpegProcesses[j] = Absent
        /\ NumStmt(dbq, "setErrorPid", j) = 1

\* this step is a startRecording(j) call that launches no process
StartFails(j) ==
    \/ /\ startEvents'[j] = startEvents[j] + 1
       /\ ~Launch(j)
    \/ j \in threw' \ threw

\* the update to 'error' with ffmpeg_pid NULL is submitted, or a failed child
\* whose handlers submit it is pending
ErrorOnItsWay(j) ==
    \/ NumStmt(dbq', "setErrorPid", j) > 0
    \/ \E p \in procs' : p.job = j /\ p.st = "failed"

C15_Step == \A j \in JobIds : StartFails(j) => ErrorOnItsWay(j)

\* C15: every failure inside startRecording leads to the update to 'error'
\* with ffmpeg_pid NULL; none throws and leaves the job as it was
C15_EveryFailureConverges == [][C15_Step]_vars

C16_Step == \A j \in errored : ~Launch(j)

\* C16: once the status of a job has been 'error', no transcoder process is
\* launched for it, in this or in a later process lifetime
C16_NoRetry == [][C16_Step]_vars

C16_Witness ==
    \E j \in errored \cap recordingAtBoot :
        /\ bootPhase = "done"
        /\ jobs[j].startTime <= now /\ now < jobs[j].endTime

C17_Step ==
    \A j \in DOMAIN jobs :
        jobs[j].status = "error" => jobs'[j].status = "error"

\* C17: once the status of a job is 'error', no step changes it
C17_ErrorTerminal == [][C17_Step]_vars

\* C18: the recording profile a launched process runs with is the one whose
\* id was stored on the job when it was scheduled
C18_SnapshottedProfile ==
    \A p \in procs : p.pid # NULL => p.profile = jobs[p.job].profileId

\* a step submits the INSERT of a Completed Recording for j exactly when it
\* is the exit handler of a process of j that ended with code 0 and left a
\* non-empty file; only the execution of that INSERT adds a row
C19_Step ==
    /\ \A j \in JobIds :
          (NumStmt(dbq', "insertRecording", j)
              > NumStmt(dbq, "insertRecording", j))
          <=> (\E p \in procs \ procs' :
                  /\ boots' = boots
                  /\ p.job = j /\ p.st = "exited"
                  /\ p.code = 0 /\ files[j] >= 1)
    /\ recordings' \ recordings # {} =>
          /\ dbq # <<>> /\ Head(dbq).op = "insertRecording"
          /\ \A r \in recordings' \ recordings :
                r.job = Head(dbq).id /\ r.size = Head(dbq).a /\ r.size >= 1

\* C19: a Completed Recording row is created only by the exit handler of a
\* process that ended with code 0 and left a file of size > 0
C19_RecordingOnlyOnSuccess ==
    /\ [][C19_Step]_vars
    /\ [](\A r \in recordings : r.job \in cleanSeen)

C19_Witness ==
    \E r \in recordings : r.job \in cleanSeen /\ r.size = files[r.job]

\* this step executes the INSERT INTO dvr_recordings submitted for job j
RecordingInsertApplied(j) ==
    /\ dbq # <<>>
    /\ Head(dbq).op = "insertRecording" /\ Head(dbq).id = j
    /\ dbq' = Tail(dbq)
    /\ boots' = boots

C20_Step ==
    \A j \in JobIds :
        RecordingInsertApplied(j) =>
            \E r \in recordings' : r.job = j /\ r.size = Head(dbq).a

\* C20: the Completed Recording that the exit handler submits together with
\* the 'completed' update is stored: when the job becomes 'completed' there
\* is a row of the job whose fileSizeBytes is the file size the handler saw
C20_CompletedHasRecording == [][C20_Step]_vars

\* this step executes the cancel UPDATE of the owner of job j
OwnerCancelApplied(j) ==
    /\ dbq # <<>>
    /\ Head(dbq).op = "cancel" /\ Head(dbq).id = j
    /\ j \in DOMAIN jobs
    /\ Head(dbq).a = jobs[j].user_id
    /\ dbq' = Tail(dbq)
    /\ boots' = boots

\* every row stays, with its owner and its window; the owner's cancel is an
\* update of the status
C21_Step ==
    /\ Len(jobs') >= Len(jobs)
    /\ \A j \in DOMAIN jobs :
          /\ jobs'[j].user_id = jobs[j].user_id
          /\ jobs'[j].startTime = jobs[j].startTime
          /\ jobs'[j].endTime = jobs[j].endTime
          /\ OwnerCancelApplied(j) => jobs'[j].status = "cancelled"

\* C21: no step removes a row of dvr_jobs: the ids only grow, every row keeps
\* its owner and its window, and the owner's cancel sets the status of the
\* row to 'cancelled' instead of deleting it
C21_JobRowsKept == [][C21_Step]_vars

C21_Witness ==
    \E j \in DOMAIN jobs :
        /\ jobs[j].status = "cancelled"
        /\ NumStmt(dbq, "cancel", j) = 0

\* this step executes the SELECT of a DELETE /api/dvr/recordings/:id request
RecSelectApplied ==
    /\ dbq # <<>> /\ Head(dbq).op = "recSelect"
    /\ NumStmt(dbq', "recSelect", Head(dbq).id)
          < NumStmt(dbq, "recSelect", Head(dbq).id)
    /\ boots' = boots

\* the requested recording exists and belongs to the requesting user
OwnRecording(s) == \E r \in recordings : r.id = s.id /\ r.user_id = s.a

\* this step executes the DELETE FROM dvr_recordings of such a request
RecDeleteApplied ==
    /\ dbq # <<>> /\ Head(dbq).op = "recDelete"
    /\ dbq' = Tail(dbq)
    /\ boots' = boots

C22_Step ==
    /\ (RecSelectApplied /\ ~OwnRecording(Head(dbq))) =>
          /\ recResponse' = [user |-> Head(dbq).a, status |-> "notFound"]
          /\ recordings' = recordings
          /\ files' = files
          /\ pendingUnlink' = pendingUnlink
          /\ dbq' = Tail(dbq)
    /\ (RecSelectApplied /\ OwnRecording(Head(dbq))) =>
          /\ dbq'[Len(dbq')].op = "recDelete"
          /\ dbq'[Len(dbq')].id = Head(dbq).id
          /\ \A r \in recordings :
                (r.id = Head(dbq).id /\ files[r.job] # Missing)
                => r.job \in pendingUnlink'
    /\ RecDeleteApplied =>
          /\ \A r \in recordings' : r.id # Head(dbq).id
          /\ \A r \in recordings : r.id # Head(dbq).id => r \in recordings'
          /\ recResponse' = [user |-> Head(dbq).a, status |-> "success"]
    /\ \A j \in pendingUnlink : (pendingUnlink' = pendingUnlink \ {j}
                                  /\ boots' = boots)
                                 => files'[j] = Missing

\* C22: DELETE /api/dvr/recordings/:id for an id that names no row of the
\* requesting user answers not-found and leaves the rows, the files and the
\* pending unlinks as they were; for a row of the requesting user it unlinks
\* the file if it exists and deletes exactly that row
C22_OwnerScopedRecordingDelete == [][C22_Step]_vars

C22_Witness ==
    /\ recResponse = [user |-> 2, status |-> "notFound"]
    /\ \E r \in recordings :
          r.id = 1 /\ r.user_id = 1 /\ files[r.job] # Missing

\* this step executes the UPDATE of loadAndScheduleAllDvrJobs
ReconcileApplied ==
    /\ dbq # <<>> /\ Head(dbq).op = "reconcile"
    /\ bootPhase' = "selecting"

\* the UPDATE of loadAndScheduleAllDvrJobs leaves alone every job that has a
\* running process of the current process lifetime
C23_Step ==
    ReconcileApplied =>
        \A j \in DOMAIN jobs : Live(j) # {} => jobs'[j].status = jobs[j].status

\* C23: loadAndScheduleAllDvrJobs comes before every other scheduling of the
\* process lifetime, so its UPDATE never turns to 'error' a job whose process
\* was launched in the current process lifetime
C23_ReconcileBeforeScheduling == [][C23_Step]_vars

\* this step stores the row of a schedule request as job j
JobStored(j) == Len(jobs) = j - 1 /\ Len(jobs') = j

\* scheduleDvrJob has run for job j in this step: the job is rejected as
\* past, or its stop trigger is armed and it is armed or started, or the
\* start threw
ScheduleCalled(j) ==
    \/ j \in pastWindow' /\ jobs'[j].endTime <= now
    \/ j \in threw'
    \/ /\ pendingStop'[j] = 1
       /\ \/ pendingStart'[j] = 1 /\ activeDvrJobs'[j] = "armed"
          \/ startEvents'[j] = 1

C24_Step ==
    \A j \in JobIds :
        JobStored(j) =>
            /\ jobs'[j].status = "scheduled"
            /\ ToMs(jobs'[j].startTime)
                  = ToMs(requested'[j].programStart)
                       - (jobs'[j].preBufferMinutes * MsPerMinute)
            /\ ToMs(jobs'[j].endTime)
                  = ToMs(requested'[j].programStop)
                       + (jobs'[j].postBufferMinutes * MsPerMinute)
            /\ jobs'[j].startTime <= requested'[j].programStart
            /\ jobs'[j].endTime >= requested'[j].programStop
            /\ ScheduleCalled(j)

\* C24: the row that POST /api/dvr/schedule stores has status 'scheduled',
\* startTime = programStart minus the pre-buffer and endTime = programStop
\* plus the post-buffer, and scheduleDvrJob runs for the new id in the step
\* that stores the row
C24_ScheduleRequest == [][C24_Step]_vars

C24_Witness ==
    \E j \in DOMAIN jobs :
        /\ jobs[j].status = "scheduled"
        /\ jobs[j].preBufferMinutes = 1 /\ jobs[j].postBufferMinutes = 1
        /\ jobs[j].startTime < requested[j].programStart
        /\ jobs[j].endTime > requested[j].programStop
        /\ pendingStop[j] = 1
        /\ pendingStart[j] = 1 \/ startEvents[j] = 1

\* C25: the durationSeconds of every Completed Recording is the length of
\* the window of its job, endTime - startTime, in seconds, whenever the
\* process started or exited
C25_DurationIsWindow ==
    \A r \in recordings :
        r.duration * MsPerSecond
            = ToMs(jobs[r.job].endTime) - ToMs(jobs[r.job].startTime)

C25_Witness ==
    \E r \in recordings :
        /\ now < jobs[r.job].endTime
        /\ r.duration * MsPerSecond
              = ToMs(jobs[r.job].endTime) - ToMs(jobs[r.job].startTime)
        /\ r.duration * MsPerSecond # ToMs(now) - ToMs(jobs[r.job].startTime)

\* this step executes the SELECT of loadAndScheduleAllDvrJobs and runs its
\* callback to the end
SelectApplied ==
    /\ dbq # <<>> /\ Head(dbq).op = "select"
    /\ bootPhase' = "done"

\* when the SELECT runs no row that was 'recording' at boot still is, and
\* its callback passes no row to scheduleDvrJob whose status is not
\* 'scheduled'
C26_Step ==
    SelectApplied =>
        /\ \A j \in recordingAtBoot : jobs[j].status # "recording"
        /\ \A j \in DOMAIN jobs :
              jobs[j].status # "scheduled" =>
                 /\ pendingStart'[j] <= pendingStart[j]
                 /\ pendingStop'[j] <= pendingStop[j]
                 /\ startEvents'[j] <= startEvents[j]
                 /\ j \notin pastWindow' \ pastWindow
                 /\ j \notin threw' \ threw
                 /\ ~Launch(j)

HasTriggers(j) ==
    /\ pendingStart[j] > 0 \/ startEvents[j] > 0
    /\ pendingStop[j] > 0

\* C27: once loadAndScheduleAllDvrJobs has finished, every job that is
\* 'scheduled' with endTime > now, and for which no cancel is in flight, has
\* a start trigger armed or has been handed to startRecording, and has a
\* stop trigger armed
C27_ScheduledJobsArmed ==
    bootPhase = "done" =>
        \A j \in DOMAIN jobs :
            (/\ jobs[j].status = "scheduled"
             /\ jobs[j].endTime > now
             /\ NumStmt(dbq, "cancel", j) = 0)
            => HasTriggers(j)

\* this step runs scheduleDvrJob(job) for job j to its end
ScheduleStep(j) ==
    \/ JobStored(j) /\ boots' = boots
    \/ /\ dbq # <<>> /\ Head(dbq).op = "select"
       /\ bootPhase' = "done"
       /\ j \in DOMAIN jobs /\ jobs[j].status = "scheduled"

\* this step calls startRecording(job) for job j
StartInvoked(j) ==
    \/ startEvents'[j] = startEvents[j] + 1
    \/ j \in threw' \ threw
    \/ JobStored(j) /\ boots' = boots + 1

C28_Step ==
    \A j \in JobIds :
        /\ StartInvoked(j) => jobs'[j].startTime <= now
        /\ (ScheduleStep(j) /\ jobs'[j].endTime > now) =>
              IF jobs'[j].startTime <= now
              THEN /\ startEvents'[j] = startEvents[j] + 1
                   /\ pendingStart'[j] <= pendingStart[j]
              ELSE /\ pendingStart'[j] >= 1
                   /\ activeDvrJobs'[j] = "armed"
                   /\ startEvents'[j] = startEvents[j]
                   /\ ~Launch(j)

\* C28: scheduleDvrJob for a job with endTime > now calls startRecording at
\* once when startTime <= now and arms a start trigger otherwise, and no
\* step calls startRecording for a job whose startTime is still ahead
C28_StartTiming == [][C28_Step]_vars

C28_Witness ==
    \E j \in DOMAIN jobs :
        /\ jobs[j].startTime < now /\ now < jobs[j].endTime
        /\ startEvents[j] = 1
        /\ activeDvrJobs[j] = "none" /\ pendingStart[j] = 0
        /\ pendingStop[j] = 1
        /\ jobs[j].status = "scheduled"

\* this step is the firing of a stop trigger of job j
StopFires(j) == stopFirings'[j] = stopFirings[j] + 1

\* the running process the registry names for job j
Registered(j) ==
    {p \in procs : /\ runningFFmpegProcesses[j] \notin {Absent, NULL}
                   /\ p.pid = runningFFmpegProcesses[j]
                   /\ p.st = "run"}

C29_Step ==
    \A j \in JobIds :
        StopFires(j) =>
            /\ procs' = (procs \ Registered(j))
                           \cup {[p EXCEPT !.sig = TRUE] : p \in Registered(j)}
            /\ runningFFmpegProcesses[j] = Absent => procs' = procs
            /\ jobs' = jobs /\ recordings' = recordings /\ dbq' = dbq
            /\ runningFFmpegProcesses' = runningFFmpegProcesses
            /\ boots' = boots /\ threw' = threw

\* C29: a firing stop trigger signals the process that the registry names
\* for the job and no other; with no registry entry it signals nothing; in
\* both cases it changes no row, submits no statement, leaves the registry
\* alone and throws nothing, also when the signal cannot be delivered
C29_StopTrigger == [][C29_Step]_vars

C29_Witness ==
    \E j \in DOMAIN jobs :
        /\ stopFirings[j] = 1
        /\ jobs[j].status = "recording"
        /\ \E p \in procs :
              p.job = j /\ p.st = "run" /\ p.sig
                 /\ p.pid = runningFFmpegProcesses[j]

\* this step is a startRecording(j) call whose spawn() fails
SpawnFails(j) ==
    \E p \in procs' :
        p.job = j /\ p.st = "failed" /\ p.h \notin {q.h : q \in procs}

\* this step is the 'error' handler of a process of j that was not spawned
SpawnErrorHandled(j) ==
    \E p \in procs :
        /\ p.job = j /\ p.st = "failed"
        /\ p \notin procs'
        /\ boots' = boots

\* this step is the 'close' handler of a process of j that was not spawned
SpawnFailureClosed(j) ==
    \E p \in procs \ procs' :
        /\ p.job = j /\ p.st = "exited" /\ p.code = CodeSpawn
        /\ boots' = boots

C30_Step ==
    \A j \in JobIds :
        /\ SpawnFails(j) =>
              /\ ~Launch(j)
              /\ NumStmt(dbq', "setRecording", j)
                    = NumStmt(dbq, "setRecording", j) + 1
              /\ \A i \in DOMAIN dbq' :
                    (/\ dbq'[i].op = "setRecording" /\ dbq'[i].id = j
                     /\ \A k \in DOMAIN dbq : dbq[k] # dbq'[i])
                    => dbq'[i].a = NULL
        /\ SpawnErrorHandled(j) =>
              /\ runningFFmpegProcesses'[j] = Absent
              /\ NumStmt(dbq', "setErrorPid", j)
                    = NumStmt(dbq, "setErrorPid", j) + 1
              /\ recordings' = recordings
        /\ SpawnFailureClosed(j) =>
              /\ runningFFmpegProcesses'[j] = Absent
              /\ NumStmt(dbq', "insertRecording", j)
                    = NumStmt(dbq, "insertRecording", j)
              /\ NumStmt(dbq', "setCompleted", j)
                    = NumStmt(dbq, "setCompleted", j)
              /\ NumStmt(dbq', "setErrorPid", j)
                    = NumStmt(dbq, "setErrorPid", j) + 1
              /\ recordings' = recordings
        /\ (/\ dbq # <<>> /\ dbq' = Tail(dbq) /\ boots' = boots
            /\ Head(dbq).id = j /\ j \in DOMAIN jobs
            /\ \/ Head(dbq).op = "setErrorPid"
               \/ Head(dbq).op = "setRecording" /\ Head(dbq).a = NULL)
           => jobs'[j].ffmpeg_pid = NULL
              /\ (Head(dbq).op = "setErrorPid" => jobs'[j].status = "error")

\* C30: a startRecording call whose spawn fails launches nothing and submits
\* the 'recording' update with a NULL process id; the 'error' handler removes
\* the job from the registry and submits the update to 'error' with
\* ffmpeg_pid NULL; the 'close' handler of that process submits the same
\* update and no Completed Recording; executed, these updates leave the row
\* without a process id, the last of them as 'error'
C30_SpawnFailure == [][C30_Step]_vars

C30_Witness ==
    \E p \in procs :
        /\ p.st = "exited" /\ p.code = CodeSpawn /\ p.pid = NULL
        /\ jobs[p.job].status = "error" /\ jobs[p.job].ffmpeg_pid = NULL
        /\ runningFFmpegProcesses[p.job] = Absent
        /\ \A r \in recordings : r.job # p.job

\* submitted updates that write a terminal status of job j
NumFinal(q, j) == NumStmt(q, "setErrorPid", j) + NumStmt(q, "setCompleted", j)

\* the handlers of one process write the terminal status of its job once:
\* the 'error' handler of a process that was not spawned writes it, the
\* 'close' handler of a process writes it unless the 'error' handler of the
\* same process has
C31_Step ==
    \A j \in JobIds :
        /\ SpawnErrorHandled(j) => NumFinal(dbq', j) = NumFinal(dbq, j) + 1
        /\ \A p \in procs \ procs' :
              (p.job = j /\ p.st = "exited" /\ boots' = boots) =>
                 NumFinal(dbq', j)
                    = NumFinal(dbq, j) + (IF p.code = CodeSpawn THEN 0 ELSE 1)

\* C31: for every process that was launched or attempted, exactly one of its
\* handlers writes the terminal status of the job, and writes it once
C31_OneFinalization == [][C31_Step]_vars

\* a process of job j that was launched and whose 'close' handler has not
\* run yet
Unfinalized(j) == {p \in procs : p.job = j /\ p.pid # NULL}

\* from the 'recording' update of a launched process to the run of its
\* 'close' handler the status of the job stays 'recording'
C32_Step ==
    \A j \in DOMAIN jobs :
        (/\ jobs[j].status = "recording"
         /\ \E p \in Unfinalized(j) : p.pid = jobs[j].ffmpeg_pid)
        => jobs'[j].status = "recording"

\* C32: for one job start trigger, launch with status 'recording', exit and
\* finalization come in this order, and between the launch and the
\* finalization no other status of the job is written
C32_PerJobOrdering == [][C32_Step]_vars

\* once 'completed', the status of a job does not change
C34_Step ==
    \A j \in DOMAIN jobs :
        jobs[j].status = "completed" => jobs'[j].status = "completed"

\* C34: once the status of a job is 'completed' no step changes it, the
\* owner's DELETE /api/dvr/jobs/:id included
C34_CompletedTerminal == [][C34_Step]_vars

\* a launch of a process of j happens before the endTime of j
C35_Step == \A j \in JobIds : Launch(j) => now < jobs'[j].endTime

\* C35: no transcoder process is launched for a job at or after the endTime
\* of the job
C35_NoLaunchAfterEnd == [][C35_Step]_vars

\* the characters of a file name
SafeNameChars == Range(DigitChars) \cup {"a", "b", "_"}

\* the name in a path: what follows the directory, without the suffix
NamePart(path) == SubSeq(path, Len(DVR_DIR) + 2, Len(path) - Len(Mp4))

WellFormedPath(path) ==
    /\ Len(path) >= Len(DVR_DIR) + 1 + Len(Mp4)
    /\ SubSeq(path, 1, Len(DVR_DIR) + 1) = DVR_DIR \o <<"/">>
    /\ SubSeq(path, Len(path) - Len(Mp4) + 1, Len(path)) = Mp4
    /\ Range(NamePart(path)) \subseteq SafeNameChars

\* C38: the output file name depends on (job id, program title) only, holds
\* only characters of [a-z0-9_] before its '.mp4' suffix, and two jobs with
\* different ids never get the same output path, whatever their titles
C38_FileNameInjective ==
    (call.fn = "safeFilename" /\ call.out # <<>>) =>
        /\ call.a = call.b => call.out[1] = call.out[2]
        /\ WellFormedPath(call.out[1]) /\ WellFormedPath(call.out[2])
        /\ call.a.id # call.b.id => call.out[1] # call.out[2]

\* two jobs whose id and title digits run into each other: 1 with "1",
\* 11 with the empty title
C38_Witness ==
    /\ call.fn = "safeFilename" /\ call.out # <<>>
    /\ call.a.id = 1 /\ call.a.programTitle = <<"1">>
    /\ call.b.id = 11 /\ call.b.programTitle = <<>>
    /\ call.out[1] # call.out[2]

\* the name of the transcoder executable
Executables == {<<"ffmpeg">>}

\* the number of elements of the argument list that are the value
Occurrences(args, value) == Cardinality({i \in DOMAIN args : args[i] = value})

\* C39: after substitution and tokenizing the first token is the executable
\* name, each substituted value is exactly one element of the argument list,
\* also when it holds a space, and no shell evaluates the command
C39_Materialization ==
    (call.fn = "spawn" /\ call.out # <<>>) =>
        /\ call.out[1].command \in Executables
        /\ Occurrences(call.out[1].args, call.streamUrl) = 1
        /\ Occurrences(call.out[1].args, call.userAgent) = 1
        /\ Occurrences(call.out[1].args, call.filePath) = 1
        /\ ~call.out[1].shell

\* the row of j exists and its status is one of S
InStatus(j, S) == j \in DOMAIN jobs /\ jobs[j].status \in S

\* C36: every job that enters 'recording' eventually has status 'completed'
\* or 'error', and is eventually absent from the process registry, when its
\* process eventually exits or the server restarts and reconciles
C36_FinalizationLiveness ==
    \A j \in JobIds :
        /\ InStatus(j, {"recording"}) ~> InStatus(j, {"completed", "error"})
        /\ InStatus(j, {"recording"}) ~> (runningFFmpegProcesses[j] = Absent)

\* C37: every job in 'scheduled' whose startTime has passed eventually leaves
\* 'scheduled', whatever its owner and other users request, in a server that
\* is not restarted
C37_SchedulingLiveness ==
    \A j \in JobIds :
        (InStatus(j, {"scheduled"}) /\ jobs[j].startTime <= now /\ boots = 1)
        ~> (InStatus(j, {"recording", "error", "cancelled"}) \/ boots > 1)

\* what the engine holds of job b: status and ffmpeg_pid of its row, the file
\* path of its recording, its armed timers and its registry entry
Footprint(b) ==
    [row |-> IF b \in DOMAIN jobs THEN <<jobs[b].status, jobs[b].ffmpeg_pid>> ELSE <<>>,
     filePath |-> {r.id : r \in {x \in recordings : x.job = b}},
     timers |-> <<pendingStart[b], activeDvrJobs[b], pendingStop[b]>>,
     registry |-> runningFFmpegProcesses[b]]

\* the processes of job b and the signals they got
ProcessesOf(b) == {p \in procs : p.job = b}

\* a step that changes what the engine holds of job a leaves job b alone, and
\* the stop trigger of a leaves the processes of b alone
C33_Step ==
    \A a \in PairIds, b \in PairIds :
        a # b =>
            /\ Footprint(a)' # Footprint(a) => Footprint(b)' = Footprint(b)
            /\ StopFires(a) => ProcessesOf(b)' = ProcessesOf(b)

\* C33: scheduling, starting, stopping, finalizing or cancelling a job leaves
\* status, ffmpeg_pid, filePath, armed timers and registry entry of every
\* other job unchanged, and a stop trigger signals only the process of its job
C33_JobsIndependent == [][C33_Step]_vars

====
